---- MODULE Spec2Model ----
(***************************************************************************)
(* Model of mcp_server/handlers.py: the shared HTTP helper fetch, the      *)
(* three weather tool functions and the dispatch table TOOL_FUNCTIONS.     *)
(* Every tool invocation is a process that walks through the statements of *)
(* its tool function and of fetch; the upstream HTTP service is the        *)
(* environment and answers each GET with a response or an exception.       *)
(***************************************************************************)
EXTENDS Integers, Sequences, FiniteSets, TLC

\* ------------------------------------------------------------------ bounds
NumProcs == 2
MaxDays == 5

Procs == 1..NumProcs
Solo == {1}
Days == (0 - 1)..MaxDays

\* ----------------------------------------------------------- Python values
None == [t |-> "none"]
Str(s) == [t |-> "str", s |-> s]
Num(n) == [t |-> "int", n |-> n]
Bool(b) == [t |-> "bool", b |-> b]
Dict(f) == [t |-> "dict", f |-> f]
List(xs) == [t |-> "list", xs |-> xs]
EmptyF == [k \in {} |-> None]

\* Python truth value of an object (used by `not x` and by `x or y`).
Truthy(v) ==
  CASE v.t = "none" -> FALSE
    [] v.t = "str" -> v.s /= ""
    [] v.t = "int" -> v.n /= 0
    [] v.t = "bool" -> v.b
    [] v.t = "dict" -> DOMAIN v.f /= {}
    [] v.t = "list" -> Len(v.xs) > 0

\* dict.get(k, default)
Get(d, k, default) == IF k \in DOMAIN d.f THEN d.f[k] ELSE default

\* d[k] = v on a dict
SetItem(d, k, v) == Dict([x \in DOMAIN d.f \cup {k} |-> IF x = k THEN v ELSE d.f[x]])

TypeName(v) ==
  CASE v.t = "none" -> "NoneType"
    [] v.t = "str" -> "str"
    [] v.t = "int" -> "int"
    [] v.t = "bool" -> "bool"
    [] v.t = "dict" -> "dict"
    [] v.t = "list" -> "list"

\* str(v) as used by an f-string; only strings occur as error details here.
PyStr(v) == IF v.t = "str" THEN v.s ELSE TypeName(v)

\* Outcomes of a call: a returned value or a raised exception.  The message
\* of an exception is the sequence of the pieces its f-string concatenates.
Return(v) == [t |-> "return", v |-> v]
Raise(cls, msg) == [t |-> "raise", cls |-> cls, msg |-> msg]
Pending == [t |-> "pending"]

\* ------------------------------------------------------ upstream behaviour
BodyHtml == "<html>502 Bad Gateway</html>"
BodyInvalidKey == "{\"error\":{\"message\":\"Invalid key\"}}"
BodyErrorNoMessage == "{\"error\":{\"code\":2008}}"
BodyErrorString == "{\"error\":\"denied\"}"
BodyEmptyObject == "{}"
BodyEmptyArray == "[]"
BodyArray == "[{\"name\":\"Paris\"}]"
BodyWeather == "{\"location\":{\"name\":\"Paris\"}}"
BodyNull == "null"

Bodies == {BodyHtml, BodyInvalidKey, BodyErrorNoMessage, BodyErrorString,
           BodyEmptyObject, BodyEmptyArray, BodyArray, BodyWeather, BodyNull}

\* resp.json(): the parsed value, or a decoding exception.
Json(text) ==
  CASE text = BodyInvalidKey ->
         Return(Dict([error |-> Dict([message |-> Str("Invalid key")])]))
    [] text = BodyErrorNoMessage ->
         Return(Dict([error |-> Dict([code |-> Num(2008)])]))
    [] text = BodyErrorString -> Return(Dict([error |-> Str("denied")]))
    [] text = BodyEmptyObject -> Return(Dict(EmptyF))
    [] text = BodyEmptyArray -> Return(List(<<>>))
    [] text = BodyArray -> Return(List(<<Dict([name |-> Str("Paris")])>>))
    [] text = BodyWeather ->
         Return(Dict([location |-> Dict([name |-> Str("Paris")])]))
    [] text = BodyNull -> Return(None)
    [] OTHER -> Raise("JSONDecodeError", <<"Expecting value">>)

StatusCodes == {200, 403, 500}

Response(status, text) == [t |-> "response", status_code |-> status, text |-> text]

\* httpx exceptions deriving from httpx.RequestError, and one that does not.
RequestErrors == {"ReadTimeout", "ConnectError"}
Exceptions == RequestErrors \cup {"RuntimeError"}
ExcText(cls) ==
  CASE cls = "ReadTimeout" -> "timed out"
    [] cls = "ConnectError" -> "Name or service not known"
    [] OTHER -> "event loop is closed"

\* Everything `await client.get(...)` can produce.
Upstream == {Response(s, b) : s \in StatusCodes, b \in Bodies}
            \cup {Raise(c, <<ExcText(c)>>) : c \in Exceptions}

ClosedClientError ==
  Raise("RuntimeError", <<"Cannot send a request, as the client has been closed.">>)

\* ------------------------------------------------------------------ fetch
\* Variant: only the empty string counts as a missing key.
KeyIsEmptyString(k) == k = Str("")

\* `if not WEATHER_API_KEY`
KeyMissing(k) == ~Truthy(k)

ConfigError == Raise("ValueError", <<"Weather API key not set.">>)

\* `params["key"] = WEATHER_API_KEY`
InjectKey(params, k) == SetItem(params, "key", k)

\* f"https://api.weatherapi.com/v1/{endpoint}"
Url(endpoint) == <<"https://api.weatherapi.com/v1/", endpoint>>

\* Variant: one module-level client shared by every call.
SharedClient(n) == IF n = 0 THEN n + 1 ELSE 1

\* httpx.AsyncClient(): a new client object; n clients exist already.
AsyncClient(n) == n + 1

\* Variant: the client is never closed.
AexitLeak(open, c) == open

\* Leaving the `async with` block closes its client.
Aexit(open, c) == open \ {c}

AttributeError(v) ==
  Raise("AttributeError", <<"'", TypeName(v), "' object has no attribute 'get'">>)

\* (data or {}).get("error", {}).get("message", resp.text)
Detail(data, text) ==
  LET d == IF Truthy(data) THEN data ELSE Dict(EmptyF)
  IN  IF d.t /= "dict" THEN AttributeError(d)
      ELSE LET e == Get(d, "error", Dict(EmptyF))
           IN  IF e.t /= "dict" THEN AttributeError(e)
               ELSE Return(Get(e, "message", Str(text)))

\* The body of the try block, given what `await client.get` produced.
TryBody(u) ==
  IF u.t = "raise" THEN u
  ELSE LET j == Json(u.text)
           data == IF j.t = "return" THEN j.v ELSE None
       IN  IF u.status_code /= 200
           THEN LET dt == Detail(data, u.text)
                IN  IF dt.t = "raise" THEN dt
                    ELSE Raise("ValueError", <<"WeatherAPI error: ", PyStr(dt.v)>>)
           ELSE Return(data)

\* The two except clauses around the try block.
Handlers(r) ==
  IF r.t /= "raise" THEN r
  ELSE IF r.cls \in RequestErrors
       THEN Raise("ValueError", <<"Request error: ">> \o r.msg)
       ELSE Raise("ValueError", <<"Unexpected error: ">> \o r.msg)

\* ----------------------------------------------------------- tool functions
\* Variant: only None counts as a missing query.
QueryIsNone(q) == q = None

\* `if not query`
QueryMissing(q) == ~Truthy(q)

\* Variant: lower bound off by one.
DaysBelowZero(d) == d < 0 \/ d > 3

\* `if days < 1 or days > 3`
DaysOutOfRange(d) == d < 1 \/ d > 3

\* Variant: the flag is passed through as a boolean.
YesNoRaw(b) == Bool(b)

\* `"yes" if flag else "no"`
YesNo(b) == IF b THEN Str("yes") ELSE Str("no")

\* Variant: the locations are returned unwrapped.
ItemsUnwrapped(v) == v

\* {"items": locations}
Items(v) == Dict([items |-> v])

QueryRequired == Raise("ValueError", <<"query with location is required.">>)
DaysError == Raise("ValueError", <<"'days' must be between 1 and 3.">>)

\* A tool function runs up to its call of fetch(endpoint, params), or raises.
FetchCall(endpoint, params) == [t |-> "call", endpoint |-> endpoint, params |-> params]

get_current_weather(a) ==
  IF QueryMissing(a.query) THEN QueryRequired
  ELSE FetchCall("current.json",
                 Dict([q |-> a.query, aqi |-> YesNo(a.include_air_quality)]))

get_weather_forecast(a) ==
  IF QueryMissing(a.query) THEN QueryRequired
  ELSE IF DaysOutOfRange(a.days) THEN DaysError
  ELSE FetchCall("forecast.json",
                 Dict([q |-> a.query, days |-> Num(a.days),
                       aqi |-> YesNo(a.include_air_quality),
                       alerts |-> YesNo(a.include_alerts)]))

search_locations(a) ==
  IF QueryMissing(a.query) THEN QueryRequired
  ELSE FetchCall("search.json", Dict([q |-> a.query]))

ToolBody(fn, a) ==
  CASE fn = "get_current_weather" -> get_current_weather(a)
    [] fn = "get_weather_forecast" -> get_weather_forecast(a)
    [] fn = "search_locations" -> search_locations(a)

\* What the tool function does with the outcome of fetch.
ToolResult(fn, r) ==
  IF fn = "search_locations" /\ r.t = "return" THEN Return(Items(r.v)) ELSE r

\* ------------------------------------------------------------------ inputs
Queries == {None, Str(""), Str("Paris"), Str("Tokyo")}
Keys == {None, Str(""), Str("secret")}

CurrentArgs == [query : Queries, include_air_quality : BOOLEAN]
ForecastArgs == [query : Queries, days : Days,
                 include_air_quality : BOOLEAN, include_alerts : BOOLEAN]
SearchArgs == [query : Queries]

Invocation(fn, a) == [fn |-> fn, args |-> a]
Invocations ==
  {Invocation("get_current_weather", a) : a \in CurrentArgs}
  \cup {Invocation("get_weather_forecast", a) : a \in ForecastArgs}
  \cup {Invocation("search_locations", a) : a \in SearchArgs}

\* The smaller input sets of the concurrent specification.
ConcInvocations ==
  {Invocation("get_current_weather",
              [query |-> Str("Paris"), include_air_quality |-> FALSE])}
  \cup {Invocation("get_weather_forecast",
              [query |-> Str("Tokyo"), days |-> d,
               include_air_quality |-> TRUE, include_alerts |-> FALSE]) : d \in {1, 5}}
  \cup {Invocation("search_locations", [query |-> q]) : q \in {Str(""), Str("Paris")}}
ConcUpstream ==
  {Response(200, BodyArray), Response(200, BodyHtml), Response(403, BodyInvalidKey),
   Raise("ReadTimeout", <<ExcText("ReadTimeout")>>)}

NoCall == [fn |-> "", args |-> EmptyF]

\* ------------------------------------------------------------------- state
\* module global read from the environment at import
VARIABLE WEATHER_API_KEY
\* module global: tool name -> tool function
VARIABLE TOOL_FUNCTIONS
\* per invocation: the statement it is at
VARIABLE pc
\* per invocation: tool function and arguments
VARIABLE call
\* per invocation: the (endpoint, params) fetch was called with
VARIABLE fetchCalls
\* per invocation: the params dict object inside fetch
VARIABLE params
\* per invocation: the AsyncClient it holds (0: none)
VARIABLE client
\* number of AsyncClient objects created so far
VARIABLE clients
\* the AsyncClient objects that are open
VARIABLE openClients
\* per invocation: the GET requests it issued
VARIABLE wire
\* per invocation: what its GET produced
VARIABLE upstream
\* per invocation: outcome of the try/except inside fetch
VARIABLE fres
\* per invocation: outcome of the tool function
VARIABLE result

vars == <<WEATHER_API_KEY, TOOL_FUNCTIONS, pc, call, fetchCalls, params, client,
          clients, openClients, wire, upstream, fres, result>>

globals == <<WEATHER_API_KEY, TOOL_FUNCTIONS>>

InitWith(K) ==
  /\ WEATHER_API_KEY \in K
  /\ TOOL_FUNCTIONS = [get_weather |-> "get_weather_forecast",
                       search_locations |-> "search_locations"]
  /\ pc = [p \in Procs |-> "idle"]
  /\ call = [p \in Procs |-> NoCall]
  /\ fetchCalls = [p \in Procs |-> <<>>]
  /\ params = [p \in Procs |-> None]
  /\ client = [p \in Procs |-> 0]
  /\ clients = 0
  /\ openClients = {}
  /\ wire = [p \in Procs |-> <<>>]
  /\ upstream = [p \in Procs |-> Pending]
  /\ fres = [p \in Procs |-> Pending]
  /\ result = [p \in Procs |-> Pending]

Init == InitWith(Keys)

\* ----------------------------------------------------------------- actions
\* A caller looks the tool up in the dispatch table and invokes it.
Dispatch(p, I) ==
  /\ pc[p] = "idle"
  /\ \E name \in DOMAIN TOOL_FUNCTIONS :
       \E inv \in I :
         /\ inv.fn = TOOL_FUNCTIONS[name]
         /\ call' = [call EXCEPT ![p] = inv]
  /\ pc' = [pc EXCEPT ![p] = "tool"]
  /\ UNCHANGED <<globals, fetchCalls, params, client, clients, openClients,
                 wire, upstream, fres, result>>

\* A caller invokes a tool function directly.
DirectCall(p, I) ==
  /\ pc[p] = "idle"
  /\ \E inv \in I : call' = [call EXCEPT ![p] = inv]
  /\ pc' = [pc EXCEPT ![p] = "tool"]
  /\ UNCHANGED <<globals, fetchCalls, params, client, clients, openClients,
                 wire, upstream, fres, result>>

\* The tool function validates its arguments and calls fetch, or raises.
Validate(p) ==
  /\ pc[p] = "tool"
  /\ LET r == ToolBody(call[p].fn, call[p].args)
     IN  IF r.t = "raise"
         THEN /\ result' = [result EXCEPT ![p] = r]
              /\ pc' = [pc EXCEPT ![p] = "done"]
              /\ UNCHANGED <<fetchCalls, params>>
         ELSE /\ fetchCalls' = [fetchCalls EXCEPT ![p] = Append(@, r)]
              /\ params' = [params EXCEPT ![p] = r.params]
              /\ pc' = [pc EXCEPT ![p] = "fetch"]
              /\ UNCHANGED result
  /\ UNCHANGED <<globals, call, client, clients, openClients, wire, upstream, fres>>

\* fetch checks the API key and adds it to params.
CheckKey(p) ==
  /\ pc[p] = "fetch"
  /\ IF KeyMissing(WEATHER_API_KEY)
     THEN /\ result' = [result EXCEPT ![p] = ConfigError]
          /\ pc' = [pc EXCEPT ![p] = "done"]
          /\ UNCHANGED params
     ELSE /\ params' = [params EXCEPT ![p] = InjectKey(@, WEATHER_API_KEY)]
          /\ pc' = [pc EXCEPT ![p] = "enter"]
          /\ UNCHANGED result
  /\ UNCHANGED <<globals, call, fetchCalls, client, clients, openClients,
                 wire, upstream, fres>>

\* `async with httpx.AsyncClient() as client`
ClientEnter(p) ==
  /\ pc[p] = "enter"
  /\ client' = [client EXCEPT ![p] = AsyncClient(clients)]
  /\ clients' = clients + 1
  /\ openClients' = openClients \cup {client'[p]}
  /\ pc' = [pc EXCEPT ![p] = "get"]
  /\ UNCHANGED <<globals, call, fetchCalls, params, wire, upstream, fres, result>>

\* `client.get(url, params=params)`: the request is issued; a closed client
\* refuses to send.
ClientGet(p) ==
  /\ pc[p] = "get"
  /\ IF client[p] \in openClients
     THEN /\ wire' = [wire EXCEPT ![p] =
                 Append(@, [client |-> client[p],
                            url |-> Url(fetchCalls[p][1].endpoint),
                            params |-> params[p]])]
          /\ pc' = [pc EXCEPT ![p] = "await"]
          /\ UNCHANGED <<upstream, fres>>
     ELSE /\ upstream' = [upstream EXCEPT ![p] = ClosedClientError]
          /\ fres' = [fres EXCEPT ![p] = Handlers(TryBody(ClosedClientError))]
          /\ pc' = [pc EXCEPT ![p] = "exit"]
          /\ UNCHANGED wire
  /\ UNCHANGED <<globals, call, fetchCalls, params, client, clients, openClients, result>>

\* The awaited GET completes; the rest of the try block and the except
\* clauses run.
Receive(p, U) ==
  /\ pc[p] = "await"
  /\ \E u \in U :
       /\ upstream' = [upstream EXCEPT ![p] = u]
       /\ fres' = [fres EXCEPT ![p] = Handlers(TryBody(u))]
  /\ pc' = [pc EXCEPT ![p] = "exit"]
  /\ UNCHANGED <<globals, call, fetchCalls, params, client, clients, openClients,
                 wire, result>>

\* Control leaves the `async with` block: the client is closed and fetch
\* returns or raises.
ClientExit(p) ==
  /\ pc[p] = "exit"
  /\ openClients' = Aexit(openClients, client[p])
  /\ pc' = [pc EXCEPT ![p] = "ret"]
  /\ UNCHANGED <<globals, call, fetchCalls, params, client, clients, wire,
                 upstream, fres, result>>

\* Back in the tool function, which returns or propagates the exception.
ToolReturn(p) ==
  /\ pc[p] = "ret"
  /\ result' = [result EXCEPT ![p] = ToolResult(call[p].fn, fres[p])]
  /\ pc' = [pc EXCEPT ![p] = "done"]
  /\ UNCHANGED <<globals, call, fetchCalls, params, client, clients, openClients,
                 wire, upstream, fres>>

\* One invocation, every input.
Next ==
  \E p \in Solo :
    \/ Dispatch(p, Invocations)
    \/ DirectCall(p, Invocations)
    \/ Validate(p)
    \/ CheckKey(p)
    \/ ClientEnter(p)
    \/ ClientGet(p)
    \/ Receive(p, Upstream)
    \/ ClientExit(p)
    \/ ToolReturn(p)

Spec == Init /\ [][Next]_vars

\* Concurrent invocations, interleaved at every statement.
NextConc ==
  \E p \in Procs :
    \/ Dispatch(p, ConcInvocations)
    \/ DirectCall(p, ConcInvocations)
    \/ Validate(p)
    \/ CheckKey(p)
    \/ ClientEnter(p)
    \/ ClientGet(p)
    \/ Receive(p, ConcUpstream)
    \/ ClientExit(p)
    \/ ToolReturn(p)

SpecConc == Init /\ [][NextConc]_vars

\* ------------------------------------------------------------------ claims
Range(f) == {f[i] : i \in DOMAIN f}
EmptyQueries == {None, Str("")}
Started(p) == pc[p] /= "idle"
Done(p) == pc[p] = "done"
Fn(p) == call[p].fn
Args(p) == call[p].args

\* The arguments satisfy the documented constraints of the tool.
ArgsValid(p) ==
  /\ Args(p).query \notin EmptyQueries
  /\ Fn(p) = "get_weather_forecast" => Args(p).days \in 1..3

\* C1: for each of the three tool functions, whatever the other arguments and
\* the API key, an invocation with an empty or missing query never gets past
\* validation: it ends with the validation error, fetch is never called, no
\* client is opened and no request is issued.
C1_EmptyQueryFailsValidation ==
  \A p \in Procs :
    (Started(p) /\ Args(p).query \in EmptyQueries) =>
      /\ pc[p] \in {"tool", "done"}
      /\ fetchCalls[p] = <<>>
      /\ client[p] = 0
      /\ clients = 0
      /\ wire[p] = <<>>
      /\ Done(p) => result[p] = QueryRequired

C1_Witness ==
  \E p \in Procs :
    /\ Done(p)
    /\ Fn(p) = "search_locations"
    /\ Args(p).query = Str("")
    /\ WEATHER_API_KEY = Str("secret")
    /\ result[p] = QueryRequired

\* C2: get_weather_forecast with a non-empty query calls fetch if and only if
\* days is in 1..3; then fetch gets endpoint forecast.json and that days
\* value; otherwise the invocation ends with the days validation error and
\* neither a fetch nor a request happens.
C2_ForecastDaysRange ==
  \A p \in Procs :
    (Fn(p) = "get_weather_forecast" /\ Args(p).query \notin EmptyQueries
       /\ pc[p] \notin {"idle", "tool"}) =>
      /\ (fetchCalls[p] /= <<>>) <=> (Args(p).days \in {1, 2, 3})
      /\ Args(p).days \in {1, 2, 3} =>
           /\ Len(fetchCalls[p]) = 1
           /\ fetchCalls[p][1].endpoint = "forecast.json"
           /\ fetchCalls[p][1].params.f.days = Num(Args(p).days)
      /\ Args(p).days \notin {1, 2, 3} =>
           /\ Done(p)
           /\ result[p] = DaysError
           /\ client[p] = 0
           /\ wire[p] = <<>>

C2_Witness ==
  \E p \in Procs :
    /\ Done(p)
    /\ Fn(p) = "get_weather_forecast"
    /\ Args(p).query = Str("Tokyo")
    /\ Args(p).days = 5
    /\ result[p] = DaysError
    /\ fetchCalls[p] = <<>>

KeyAbsent == WEATHER_API_KEY \in {None, Str("")}

\* C3 as stated: with the API key absent, every finished invocation, for any
\* arguments, failed with the configuration error and sent no request.
C3_Original ==
  \A p \in Procs :
    (WEATHER_API_KEY = None /\ Done(p)) =>
      /\ result[p] = ConfigError
      /\ wire[p] = <<>>

\* C3 amended: with the API key absent (unset or empty) no invocation opens a
\* client or issues a request, and every invocation fails: with the
\* configuration error when its arguments pass the tool's validation, with
\* the validation error otherwise.
C3_NoKeyNoRequest ==
  \A p \in Procs :
    KeyAbsent =>
      /\ client[p] = 0
      /\ clients = 0
      /\ wire[p] = <<>>
      /\ pc[p] \in {"idle", "tool", "fetch", "done"}
      /\ Done(p) =>
           /\ result[p].t = "raise"
           /\ ArgsValid(p) => result[p] = ConfigError
           /\ ~ArgsValid(p) => result[p] \in {QueryRequired, DaysError}

C3_Witness ==
  \E p \in Procs :
    /\ WEATHER_API_KEY = None
    /\ Done(p)
    /\ Fn(p) = "get_current_weather"
    /\ fetchCalls[p] /= <<>>
    /\ result[p] = ConfigError

YesNoString(b) == Str(IF b THEN "yes" ELSE "no")

\* C4: whenever get_current_weather or get_weather_forecast calls fetch, the
\* parameters aqi (and alerts for the forecast) are the strings "yes"/"no"
\* matching the boolean arguments, never booleans, and they go out on the
\* wire like that; get_current_weather's call is exactly
\* fetch("current.json", {q: query, aqi: "yes"/"no"}).
C4_FlagsAreYesNo ==
  \A p \in Procs :
    \A i \in DOMAIN fetchCalls[p] :
      LET c == fetchCalls[p][i]
          a == Args(p)
      IN  /\ Fn(p) = "get_current_weather" =>
               /\ c.endpoint = "current.json"
               /\ c.params = Dict([q |-> a.query,
                                   aqi |-> YesNoString(a.include_air_quality)])
          /\ Fn(p) = "get_weather_forecast" =>
               /\ c.params.f.aqi = YesNoString(a.include_air_quality)
               /\ c.params.f.alerts = YesNoString(a.include_alerts)
          /\ \A k \in DOMAIN c.params.f : c.params.f[k].t /= "bool"
          /\ \A j \in DOMAIN wire[p] :
               \A k \in DOMAIN c.params.f : wire[p][j].params.f[k] = c.params.f[k]

C4_Witness ==
  \E p \in Procs :
    /\ call[p] = Invocation("get_current_weather",
                            [query |-> Str("Paris"), include_air_quality |-> TRUE])
    /\ fetchCalls[p] = <<FetchCall("current.json",
                                   Dict([q |-> Str("Paris"), aqi |-> Str("yes")]))>>
    /\ Len(wire[p]) = 1

\* C5: search_locations with a non-empty query returns, for every value v
\* fetch returns, the mapping with the single key items holding v; when
\* fetch fails, search_locations fails with the same error and returns nothing.
C5_SearchWrapsItems ==
  \A p \in Procs :
    (Fn(p) = "search_locations" /\ Args(p).query \notin EmptyQueries /\ Done(p)) =>
      /\ fres[p].t = "return" =>
           /\ result[p].t = "return"
           /\ result[p].v.t = "dict"
           /\ DOMAIN result[p].v.f = {"items"}
           /\ result[p].v.f.items = fres[p].v
      /\ fres[p].t = "raise" => result[p] = fres[p]
      /\ fres[p].t = "pending" => result[p].t = "raise"

C5_Witness ==
  \E p \in Procs :
    /\ Done(p)
    /\ Fn(p) = "search_locations"
    /\ upstream[p] = Response(200, BodyArray)
    /\ result[p] = Return(Dict([items |-> List(<<Dict([name |-> Str("Paris")])>>)]))

Answered(p) == pc[p] \in {"exit", "ret", "done"} /\ upstream[p].t /= "pending"

\* The upstream error detail of a response: body.error.message when the body
\* is a JSON object carrying one, else the raw response text.
UpstreamDetail(u) ==
  LET j == Json(u.text)
  IN  IF /\ j.t = "return"
         /\ j.v.t = "dict"
         /\ "error" \in DOMAIN j.v.f
         /\ j.v.f.error.t = "dict"
         /\ "message" \in DOMAIN j.v.f.error.f
      THEN PyStr(j.v.f.error.f.message)
      ELSE u.text

\* C6: for every response whose status is not 200, whatever the shape of its
\* body, fetch fails and the failure message contains the upstream error
\* detail (body.error.message if present, else the raw response text).
C6_UpstreamErrorDetail ==
  \A p \in Procs :
    (Answered(p) /\ upstream[p].t = "response" /\ upstream[p].status_code /= 200) =>
      /\ fres[p].t = "raise"
      /\ UpstreamDetail(upstream[p]) \in Range(fres[p].msg)

\* C7: the failure fetch surfaces names its cause: a transport failure is a
\* "Request error", a non-200 response is a "WeatherAPI error", and only any
\* other exception is an "Unexpected error".
C7_FailureKinds ==
  \A p \in Procs :
    (Answered(p) /\ fres[p].t = "raise") =>
      LET kind == Head(fres[p].msg)
          u == upstream[p]
      IN  /\ (u.t = "raise" /\ u.cls \in RequestErrors) => kind = "Request error: "
          /\ (u.t = "response" /\ u.status_code /= 200) => kind = "WeatherAPI error: "
          /\ kind = "Unexpected error: " => (u.t = "raise" /\ u.cls \notin RequestErrors)

\* C8: every completed fetch either fails or returns the parsed JSON body
\* unchanged, and it returns only when the status is 200 and the body parses
\* as JSON.
C8_ReturnsOnlyParsedBody ==
  \A p \in Procs :
    Answered(p) =>
      /\ fres[p].t \in {"return", "raise"}
      /\ fres[p].t = "return" =>
           /\ upstream[p].t = "response"
           /\ upstream[p].status_code = 200
           /\ Json(upstream[p].text).t = "return"
           /\ fres[p].v = Json(upstream[p].text).v

\* The invocation got through validation and the API-key check.
PassedChecks(p) == Started(p) /\ ArgsValid(p) /\ ~KeyAbsent

\* C9: an invocation that passes validation and the key check opens one
\* client and issues exactly one GET carrying the key, never a second one;
\* the client is open while the request is in flight and closed before the
\* invocation returns or fails, whatever the upstream produced; once every
\* invocation has ended no client is open.
C9_OneRequestClientReleased ==
  /\ \A p \in Procs :
       /\ Len(wire[p]) <= 1
       /\ (PassedChecks(p) /\ pc[p] \in {"await", "exit", "ret", "done"}) =>
            /\ client[p] /= 0
            /\ Len(wire[p]) = 1
            /\ wire[p][1].client = client[p]
            /\ "key" \in DOMAIN wire[p][1].params.f
            /\ wire[p][1].params.f.key = WEATHER_API_KEY
       /\ pc[p] \in {"get", "await", "exit"} => client[p] \in openClients
       /\ pc[p] \in {"ret", "done"} => client[p] \notin openClients
  /\ Cardinality({p \in Procs : client[p] /= 0}) = clients
  /\ (\A p \in Procs : pc[p] \in {"idle", "done"}) => openClients = {}

C9_Witness ==
  \E p \in Procs :
    /\ Done(p)
    /\ upstream[p] = Raise("ReadTimeout", <<"timed out">>)
    /\ result[p] = Raise("ValueError", <<"Request error: ", "timed out">>)
    /\ Len(wire[p]) = 1
    /\ client[p] /= 0
    /\ openClients = {}

\* The outcome of an invocation that runs alone with API key k and upstream
\* answer u.
RunAlone(inv, k, u) ==
  LET r == ToolBody(inv.fn, inv.args)
  IN  IF r.t = "raise" THEN r
      ELSE IF KeyMissing(k) THEN ConfigError
      ELSE ToolResult(inv.fn, Handlers(TryBody(u)))

Local(q) == <<call[q], fetchCalls[q], params[q], client[q], wire[q], upstream[q],
              fres[q], result[q], client[q] \in openClients>>

C10_Separate ==
  /\ \A p, q \in Procs : (p /= q /\ client[p] /= 0) => client[p] /= client[q]
  /\ \A p \in Procs :
       \A j \in DOMAIN wire[p] :
         /\ wire[p][j].client = client[p]
         /\ wire[p][j].params = SetItem(fetchCalls[p][1].params, "key", WEATHER_API_KEY)
  /\ \A p \in Procs :
       Done(p) => result[p] = RunAlone(call[p], WEATHER_API_KEY, upstream[p])

C10_Step ==
  /\ WEATHER_API_KEY' = WEATHER_API_KEY
  /\ TOOL_FUNCTIONS' = TOOL_FUNCTIONS
  /\ \A q \in Procs : pc'[q] = pc[q] => Local(q)' = Local(q)

\* C10: under every interleaving of concurrent invocations the API key and
\* the dispatch table never change, every invocation has a client of its own
\* and sends its own parameters plus the key, a step of one invocation
\* changes nothing that belongs to another (arguments, params, client,
\* request, response, outcome), and each finished invocation has the outcome
\* it has when run alone with the same upstream answer.
C10_Isolation == []C10_Separate /\ [][C10_Step]_vars

C10_Witness ==
  /\ pc[1] = "exit"
  /\ pc[2] = "await"
  /\ Fn(1) = "search_locations"
  /\ Fn(2) = "get_weather_forecast"
  /\ client[1] /= client[2]
  /\ openClients = {client[1], client[2]}
  /\ params[1] /= params[2]

====
